---- MODULE Spec2Model ----
(***************************************************************************)
(* Ownership-scoped CRUD of mrinalwahal/boilerplate.                       *)
(*                                                                         *)
(* The model follows the organisation data-access layer (sqldb: Create,    *)
(* List, Get, Update, Delete over a GORM connection) and the organisation  *)
(* service that validates and forwards to it.  The record service          *)
(* (record/service/service.go) carries the same five operations, line for  *)
(* line, over the column user_id instead of owner_id.                      *)
(*                                                                         *)
(* Values.  A UUID is a natural number, 0 being uuid.Nil.  A Title is a    *)
(* natural number, 0 being the empty string and the order of the numbers   *)
(* the collation order of the strings.  A timestamp is a natural number,   *)
(* 0 being NULL.  The call context is NoClaims when it holds no JWTClaims  *)
(* value, and otherwise the XUserID of the claims (possibly uuid.Nil).     *)
(***************************************************************************)
EXTENDS Integers, Sequences, FiniteSets, TLC

\* ------------------------------------------------------------------ bounds
MaxRows == 2
MaxUsers == 2
MaxTitle == 2
MaxClock == 3
MaxSkip == 1

\* ------------------------------------------------------- program constants
MaxLimit == 100

\* the rows the tests of List seed the table with
Seeded == 5

Nil == 0
NoClaims == 0 - 1
NoErr == "nil"
StoreErr == "store error"

Users == 1 .. MaxUsers
Ctxs == {NoClaims, Nil} \cup Users
Titles == 0 .. MaxTitle
UUIDs == 0 .. MaxRows

VARIABLES rows, clock, deleted, last, pending, todos

vars == <<rows, clock, deleted, last, pending, todos>>

\* ------------------------------------------------------------ option types
NilOptions == [isNil |-> TRUE]

CreateOptionsSet ==
    {NilOptions} \cup
    [isNil : {FALSE}, Title : Titles, OwnerID : {Nil} \cup Users]

EmptyListOptions ==
    [isNil |-> FALSE, Title |-> 0, Skip |-> 0, Limit |-> 0,
     OrderBy |-> "", OrderDirection |-> ""]

\* the valid filters tried on every store, and one filter for each way of
\* being invalid
ListOptionsSet ==
    {NilOptions} \cup
    [isNil : {FALSE}, Title : {0, 1}, Skip : {0, MaxSkip}, Limit : {0, 1},
     OrderBy : {"title"}, OrderDirection : {"", "desc"}] \cup
    {[EmptyListOptions EXCEPT !.Skip = 0 - 1],
     [EmptyListOptions EXCEPT !.Limit = 0 - 1],
     [EmptyListOptions EXCEPT !.Limit = MaxLimit + 1],
     [EmptyListOptions EXCEPT !.Limit = MaxLimit],
     EmptyListOptions}

UpdateOptionsSet ==
    {NilOptions} \cup [isNil : {FALSE}, Title : Titles]

\* the values the validators are applied to: the fields of ListOptions on
\* both sides of every limit validate() compares them with
ValidateListInputs ==
    [isNil : {FALSE}, Title : Titles, Skip : (0 - MaxSkip) .. MaxSkip,
     Limit : {0 - 1, 0, 1, MaxLimit - 1, MaxLimit, MaxLimit + 1},
     OrderBy : {"", "title", "created_at"},
     OrderDirection : {"", "asc", "desc"}]

\* -------------------------------------------------------------- validators
\* the owner looked at before the Title
CreateOptions_validate_OwnerFirst(o) ==
    IF o.OwnerID = Nil THEN "db.ErrInvalidUserID"
    ELSE IF o.Title = 0 THEN "db.ErrInvalidTitle"
    ELSE NoErr

CreateOptions_validate(o) ==
    IF o.Title = 0 THEN "db.ErrInvalidTitle"
    ELSE IF o.OwnerID = Nil THEN "db.ErrInvalidUserID"
    ELSE NoErr

\* the upper limit compared with >= instead of >
ListOptions_validate_OffByOne(o) ==
    IF o.Skip < 0 \/ o.Limit < 0 \/ o.Limit >= MaxLimit
    THEN "db.ErrInvalidFilters"
    ELSE NoErr

ListOptions_validate(o) ==
    IF o.Skip < 0 \/ o.Limit < 0 \/ o.Limit > MaxLimit
    THEN "db.ErrInvalidFilters"
    ELSE NoErr

\* a validator that accepts every Title
UpdateOptions_validate_Lax(o) == NoErr

UpdateOptions_validate(o) ==
    IF o.Title = 0 THEN "db.ErrInvalidTitle" ELSE NoErr

\* ------------------------------------------------------ the store's queries
\* a context without claims taken for one that carries some
exists_Always(ctx) == TRUE

\* ctx.Value(middleware.XJWTClaims).(middleware.JWTClaims)
exists(ctx) == ctx # NoClaims

\* the Where clause left out
WhereOwner_Unscoped(ctx, r) == TRUE

\* txn.Where(&model.Organisation{OwnerID: claims.XUserID}): a struct
\* condition, in which GORM skips the fields that hold their zero value.
WhereOwner(ctx, r) ==
    IF exists(ctx) /\ ctx # Nil THEN r.OwnerID = ctx ELSE TRUE

\* an Unscoped() session: tombstoned rows are reached too
NotDeleted_Unscoped(r) == TRUE

\* gorm.DeletedAt adds "deleted_at IS NULL" to every query and update.
NotDeleted(r) == r.DeletedAt = 0

\* the primary key alone, without the ownership condition
Matching_NoOwner(store, ctx, id) ==
    {r \in store : r.ID = id /\ NotDeleted(r)}

\* the rows a statement on the primary key id reaches
Matching(store, ctx, id) ==
    {r \in store : r.ID = id /\ WhereOwner(ctx, r) /\ NotDeleted(r)}

Res(err, out, store, clk, calls) ==
    [err |-> err, out |-> out, store |-> store, clock |-> clk,
     calls |-> calls, dbcalls |-> 0]

\* the row First(&payload) loads: the primary key admits one row at most
TheRow(S) == CHOOSE r \in S : TRUE

\* the owner read from the claims of the context when it carries some
dbCreate_OwnerFromClaims(store, clk, ctx, options, newID, fault) ==
    IF options.isNil THEN Res("db.ErrInvalidOptions", <<>>, store, clk, 0)
    ELSE IF CreateOptions_validate(options) # NoErr
    THEN Res(CreateOptions_validate(options), <<>>, store, clk, 0)
    ELSE IF fault = 1 THEN Res(StoreErr, <<>>, store, clk, 1)
    ELSE LET payload == [ID |-> newID,
                         CreatedAt |-> clk + 1, UpdatedAt |-> clk + 1,
                         DeletedAt |-> 0,
                         Title |-> options.Title,
                         OwnerID |-> IF exists(ctx) /\ ctx # Nil
                                     THEN ctx ELSE options.OwnerID]
         IN  Res(NoErr, <<payload>>, store \cup {payload}, clk + 1, 1)

\* the returned payload without the ID the store generated for the row
dbCreate_NoID(store, clk, ctx, options, newID, fault) ==
    IF options.isNil THEN Res("db.ErrInvalidOptions", <<>>, store, clk, 0)
    ELSE IF CreateOptions_validate(options) # NoErr
    THEN Res(CreateOptions_validate(options), <<>>, store, clk, 0)
    ELSE IF fault = 1 THEN Res(StoreErr, <<>>, store, clk, 1)
    ELSE LET payload == [ID |-> newID,
                         CreatedAt |-> clk + 1, UpdatedAt |-> clk + 1,
                         DeletedAt |-> 0,
                         Title |-> options.Title,
                         OwnerID |-> options.OwnerID]
         IN  Res(NoErr, <<[payload EXCEPT !.ID = Nil]>>,
                 store \cup {payload}, clk + 1, 1)

\* ------------------------------------------------------------ sqldb.Create
dbCreate(store, clk, ctx, options, newID, fault) ==
    IF options.isNil THEN Res("db.ErrInvalidOptions", <<>>, store, clk, 0)
    ELSE IF CreateOptions_validate(options) # NoErr
    THEN Res(CreateOptions_validate(options), <<>>, store, clk, 0)
    ELSE IF fault = 1 THEN Res(StoreErr, <<>>, store, clk, 1)
    ELSE LET payload == [ID |-> newID,
                         CreatedAt |-> clk + 1, UpdatedAt |-> clk + 1,
                         DeletedAt |-> 0,
                         Title |-> options.Title,
                         OwnerID |-> options.OwnerID]
         IN  Res(NoErr, <<payload>>, store \cup {payload}, clk + 1, 1)

\* -------------------------------------------------------------- sqldb.List
Perms(S) ==
    {s \in [1 .. Cardinality(S) -> S] :
        \A i, j \in 1 .. Cardinality(S) : i # j => s[i] # s[j]}

\* the direction of the order left out of the clause
Ordered_NoDirection(s, options) ==
    \/ options.OrderBy = ""
    \/ /\ options.OrderBy = "title"
       /\ \A i, j \in 1 .. Len(s) : i < j => s[i].Title <= s[j].Title

\* query.Order(options.OrderBy + " " + options.OrderDirection)
Ordered(s, options) ==
    \/ options.OrderBy = ""
    \/ /\ options.OrderBy = "title"
       /\ \A i, j \in 1 .. Len(s) :
            i < j => IF options.OrderDirection = "desc"
                     THEN s[i].Title >= s[j].Title
                     ELSE s[i].Title <= s[j].Title

\* the limit applied to the rows before the offset
Window_LimitFirst(s, options) ==
    LET cut == IF options.Limit > 0 /\ options.Limit < Len(s)
               THEN SubSeq(s, 1, options.Limit)
               ELSE s
    IN  SubSeq(cut, IF options.Skip > 0 THEN options.Skip + 1 ELSE 1,
               Len(cut))

\* query.Limit(options.Limit) when Limit > 0, query.Offset(options.Skip)
\* when Skip > 0
Window(s, options) ==
    LET from == IF options.Skip > 0 THEN options.Skip + 1 ELSE 1
        upto == IF options.Limit > 0 /\ from + options.Limit - 1 < Len(s)
                THEN from + options.Limit - 1
                ELSE Len(s)
    IN  SubSeq(s, from, upto)

\* the query of List without the ownership condition
Selected_NoOwner(store, ctx, options) ==
    {r \in store : /\ NotDeleted(r)
                   /\ (options.Title # 0 => r.Title = options.Title)}

\* the rows the query of List selects, before ordering and pagination
Selected(store, ctx, options) ==
    {r \in store : /\ WhereOwner(ctx, r)
                   /\ NotDeleted(r)
                   /\ (options.Title # 0 => r.Title = options.Title)}

\* a List that rejects nil options, as the service does
dbList_NilRejected(store, clk, ctx, options0, fault) ==
    IF options0.isNil
    THEN {Res("db.ErrInvalidOptions", <<>>, store, clk, 0)}
    ELSE IF ListOptions_validate(options0) # NoErr
    THEN {Res(ListOptions_validate(options0), <<>>, store, clk, 0)}
    ELSE IF fault = 1 THEN {Res(StoreErr, <<>>, store, clk, 1)}
    ELSE {Res(NoErr, Window(s, options0), store, clk, 1) :
            s \in {p \in Perms(Selected(store, ctx, options0)) :
                      Ordered(p, options0)}}

\* The result sets List can return: the store decides the order of the rows
\* the ORDER BY clause leaves unordered.
dbList(store, clk, ctx, options0, fault) ==
    LET options == IF options0.isNil THEN EmptyListOptions ELSE options0
    IN  IF ListOptions_validate(options) # NoErr
        THEN {Res(ListOptions_validate(options), <<>>, store, clk, 0)}
        ELSE IF fault = 1 THEN {Res(StoreErr, <<>>, store, clk, 1)}
        ELSE {Res(NoErr, Window(s, options), store, clk, 1) :
                s \in {p \in Perms(Selected(store, ctx, options)) :
                          Ordered(p, options)}}

\* a Get that tells a row of another owner from a row that is not there
dbGet_Forbidden(store, clk, ctx, ID, fault) ==
    IF ID = Nil THEN Res("db.ErrInvalidorganisationID", <<>>, store, clk, 0)
    ELSE IF fault = 1 THEN Res(StoreErr, <<>>, store, clk, 1)
    ELSE IF Matching(store, ctx, ID) # {}
    THEN Res(NoErr, <<TheRow(Matching(store, ctx, ID))>>, store, clk, 1)
    ELSE IF \E r \in store : r.ID = ID /\ NotDeleted(r)
    THEN Res("forbidden", <<>>, store, clk, 1)
    ELSE Res("gorm.ErrRecordNotFound", <<>>, store, clk, 1)

\* a Get that asks the store again when the store has failed
dbGet_Retry(store, clk, ctx, ID, fault) ==
    IF ID = Nil THEN Res("db.ErrInvalidorganisationID", <<>>, store, clk, 0)
    ELSE IF Matching(store, ctx, ID) = {}
    THEN Res("gorm.ErrRecordNotFound", <<>>, store, clk,
             IF fault = 1 THEN 2 ELSE 1)
    ELSE Res(NoErr, <<TheRow(Matching(store, ctx, ID))>>, store, clk,
             IF fault = 1 THEN 2 ELSE 1)

\* --------------------------------------------------------------- sqldb.Get
dbGet(store, clk, ctx, ID, fault) ==
    IF ID = Nil THEN Res("db.ErrInvalidorganisationID", <<>>, store, clk, 0)
    ELSE IF fault = 1 THEN Res(StoreErr, <<>>, store, clk, 1)
    ELSE IF Matching(store, ctx, ID) = {}
    THEN Res("gorm.ErrRecordNotFound", <<>>, store, clk, 1)
    ELSE Res(NoErr, <<TheRow(Matching(store, ctx, ID))>>, store, clk, 1)

\* ------------------------------------------------------------ sqldb.Update
\* an update statement on the primary key alone
Updates_NoOwner(store, clk, ctx, id, options) ==
    {IF r.ID = id /\ NotDeleted(r)
     THEN [r EXCEPT !.Title = options.Title, !.UpdatedAt = clk + 1]
     ELSE r : r \in store}

\* an update statement whose model carries no primary key
Updates_WithoutKey(store, clk, ctx, id, options) ==
    {IF WhereOwner(ctx, r) /\ NotDeleted(r)
     THEN [r EXCEPT !.Title = options.Title, !.UpdatedAt = clk + 1]
     ELSE r : r \in store}

\* txn.Model(&payload).Updates(options): sets title and updated_at of the
\* rows the condition reaches; reaching none is not an error.
Updates(store, clk, ctx, id, options) ==
    {IF r \in Matching(store, ctx, id)
     THEN [r EXCEPT !.Title = options.Title, !.UpdatedAt = clk + 1]
     ELSE r : r \in store}

\* the entity read before the statement has run
dbUpdate_Stale(store, clk, ctx, id, options, fault) ==
    IF id = Nil THEN Res("db.ErrInvalidorganisationID", <<>>, store, clk, 0)
    ELSE IF options.isNil THEN Res("db.ErrInvalidOptions", <<>>, store, clk, 0)
    ELSE IF UpdateOptions_validate(options) # NoErr
    THEN Res(UpdateOptions_validate(options), <<>>, store, clk, 0)
    ELSE IF fault = 1 THEN Res(StoreErr, <<>>, store, clk, 1)
    ELSE LET store1 == Updates(store, clk, ctx, id, options)
             clk1 == IF store1 = store THEN clk ELSE clk + 1
             got == dbGet(store, clk, ctx, id, IF fault = 2 THEN 1 ELSE 0)
         IN  Res(got.err, got.out, store1, clk1, 1 + got.calls)

\* the options validated after the statement has run
dbUpdate_ValidateLate(store, clk, ctx, id, options, fault) ==
    IF id = Nil THEN Res("db.ErrInvalidorganisationID", <<>>, store, clk, 0)
    ELSE IF options.isNil THEN Res("db.ErrInvalidOptions", <<>>, store, clk, 0)
    ELSE IF fault = 1 THEN Res(StoreErr, <<>>, store, clk, 1)
    ELSE LET store1 == Updates(store, clk, ctx, id, options)
             clk1 == IF store1 = store THEN clk ELSE clk + 1
             got == dbGet(store1, clk1, ctx, id, IF fault = 2 THEN 1 ELSE 0)
         IN  IF UpdateOptions_validate(options) # NoErr
             THEN Res(UpdateOptions_validate(options), <<>>, store1, clk1, 1)
             ELSE Res(got.err, got.out, store1, clk1, 1 + got.calls)

dbUpdate(store, clk, ctx, id, options, fault) ==
    IF id = Nil THEN Res("db.ErrInvalidorganisationID", <<>>, store, clk, 0)
    ELSE IF options.isNil THEN Res("db.ErrInvalidOptions", <<>>, store, clk, 0)
    ELSE IF UpdateOptions_validate(options) # NoErr
    THEN Res(UpdateOptions_validate(options), <<>>, store, clk, 0)
    ELSE IF fault = 1 THEN Res(StoreErr, <<>>, store, clk, 1)
    ELSE LET store1 == Updates(store, clk, ctx, id, options)
             clk1 == IF store1 = store THEN clk ELSE clk + 1
             got == dbGet(store1, clk1, ctx, id, IF fault = 2 THEN 1 ELSE 0)
         IN  Res(got.err, got.out, store1, clk1, 1 + got.calls)

\* a Delete that erases the rows it reaches
SoftDelete_Hard(store, clk, ctx, ID) ==
    [store |-> store \ Matching(store, ctx, ID),
     RowsAffected |-> Cardinality(Matching(store, ctx, ID))]

\* ------------------------------------------------------------ sqldb.Delete
\* txn.Delete(&payload) on a model with gorm.DeletedAt: sets deleted_at of
\* the rows the condition reaches and reports how many it reached.
SoftDelete(store, clk, ctx, ID) ==
    [store |-> {IF r \in Matching(store, ctx, ID)
                THEN [r EXCEPT !.DeletedAt = clk + 1]
                ELSE r : r \in store},
     RowsAffected |-> Cardinality(Matching(store, ctx, ID))]

\* a Delete that does not look at RowsAffected
dbDelete_Idempotent(store, clk, ctx, ID, fault) ==
    IF ID = Nil THEN Res("db.ErrInvalidorganisationID", <<>>, store, clk, 0)
    ELSE IF fault = 1 THEN Res(StoreErr, <<>>, store, clk, 1)
    ELSE LET result == SoftDelete(store, clk, ctx, ID)
         IN  Res(NoErr, <<>>, result.store,
                 IF result.RowsAffected = 0 THEN clk ELSE clk + 1, 1)

dbDelete(store, clk, ctx, ID, fault) ==
    IF ID = Nil THEN Res("db.ErrInvalidorganisationID", <<>>, store, clk, 0)
    ELSE IF fault = 1 THEN Res(StoreErr, <<>>, store, clk, 1)
    ELSE LET result == SoftDelete(store, clk, ctx, ID)
         IN  IF result.RowsAffected = 0
             THEN Res("db.ErrNoRowsAffected", <<>>, result.store, clk, 1)
             ELSE Res(NoErr, <<>>, result.store, clk + 1, 1)

\* ------------------------------------------- organisation service validators
service_CreateOptions_validate(o) ==
    IF o.Title = 0 THEN "service.ErrInvalidTitle"
    ELSE IF o.OwnerID = Nil THEN "service.ErrInvalidUserID"
    ELSE NoErr

service_ListOptions_validate(o) ==
    IF o.Skip < 0 THEN "service.ErrInvalidFilters"
    ELSE IF o.Limit < 0 \/ o.Limit > MaxLimit THEN "service.ErrInvalidFilters"
    ELSE NoErr

service_UpdateOptions_validate(o) ==
    IF o.Title = 0 THEN "service.ErrInvalidTitle" ELSE NoErr

\* ------------------------------------------------- organisation service ops
\* the value and error of the one db call the service makes
Forward(d) == [d EXCEPT !.dbcalls = 1]

serviceCreate(store, clk, ctx, options, newID, fault) ==
    IF options.isNil THEN Res("service.ErrInvalidOptions", <<>>, store, clk, 0)
    ELSE IF service_CreateOptions_validate(options) # NoErr
    THEN Res(service_CreateOptions_validate(options), <<>>, store, clk, 0)
    ELSE Forward(dbCreate(store, clk, ctx,
                          [isNil |-> FALSE, Title |-> options.Title,
                           OwnerID |-> options.OwnerID], newID, fault))

\* the OrderDirection left out of the options handed to the db layer
serviceList_NoDirection(store, clk, ctx, options, fault) ==
    IF options.isNil THEN {Res("service.ErrInvalidOptions", <<>>, store, clk, 0)}
    ELSE IF service_ListOptions_validate(options) # NoErr
    THEN {Res(service_ListOptions_validate(options), <<>>, store, clk, 0)}
    ELSE {Forward(d) :
            d \in dbList(store, clk, ctx,
                         [isNil |-> FALSE, Title |-> options.Title,
                          Skip |-> options.Skip, Limit |-> options.Limit,
                          OrderBy |-> options.OrderBy,
                          OrderDirection |-> ""], fault)}

serviceList(store, clk, ctx, options, fault) ==
    IF options.isNil THEN {Res("service.ErrInvalidOptions", <<>>, store, clk, 0)}
    ELSE IF service_ListOptions_validate(options) # NoErr
    THEN {Res(service_ListOptions_validate(options), <<>>, store, clk, 0)}
    ELSE {Forward(d) :
            d \in dbList(store, clk, ctx,
                         [isNil |-> FALSE, Title |-> options.Title,
                          Skip |-> options.Skip, Limit |-> options.Limit,
                          OrderBy |-> options.OrderBy,
                          OrderDirection |-> options.OrderDirection], fault)}

serviceGet(store, clk, ctx, ID, fault) ==
    IF ID = Nil THEN Res("service.ErrInvalidOptions", <<>>, store, clk, 0)
    ELSE Forward(dbGet(store, clk, ctx, ID, fault))

\* the options looked at before the ID
serviceUpdate_OptionsFirst(store, clk, ctx, ID, options, fault) ==
    IF options.isNil
    THEN Res("service.ErrInvalidOptions", <<>>, store, clk, 0)
    ELSE IF ID = Nil
    THEN Res("service.ErrInvalidorganisationID", <<>>, store, clk, 0)
    ELSE IF service_UpdateOptions_validate(options) # NoErr
    THEN Res(service_UpdateOptions_validate(options), <<>>, store, clk, 0)
    ELSE Forward(dbUpdate(store, clk, ctx, ID,
                          [isNil |-> FALSE, Title |-> options.Title], fault))

serviceUpdate(store, clk, ctx, ID, options, fault) ==
    IF ID = Nil
    THEN Res("service.ErrInvalidorganisationID", <<>>, store, clk, 0)
    ELSE IF options.isNil
    THEN Res("service.ErrInvalidOptions", <<>>, store, clk, 0)
    ELSE IF service_UpdateOptions_validate(options) # NoErr
    THEN Res(service_UpdateOptions_validate(options), <<>>, store, clk, 0)
    ELSE Forward(dbUpdate(store, clk, ctx, ID,
                          [isNil |-> FALSE, Title |-> options.Title], fault))

serviceDelete(store, clk, ctx, ID, fault) ==
    IF ID = Nil
    THEN Res("service.ErrInvalidorganisationID", <<>>, store, clk, 0)
    ELSE Forward(dbDelete(store, clk, ctx, ID, fault))

\* ------------------------------------------------------------ state machine
NoCall ==
    [op |-> "none", via |-> "none", ctx |-> NoClaims, id |-> Nil,
     options |-> NilOptions, fault |-> 0, err |-> NoErr, out |-> <<>>,
     calls |-> 0, dbcalls |-> 0, more |-> TRUE]

\* no Update is between its update statement and its re-fetch
NoPending == <<>>

Init ==
    /\ rows = {}
    /\ clock = 0
    /\ deleted = {}
    /\ last = NoCall
    /\ pending = NoPending
    /\ todos = {}

\* the call returns: the store holds what the call left in it, and last
\* holds the call, what it returned and whether more calls follow it
Return(op, via, ctx, id, options, fault, r) ==
    /\ r.clock <= MaxClock
    /\ Cardinality(r.store) <= MaxRows
    /\ rows' = r.store
    /\ clock' = r.clock
    /\ deleted' = IF op = "Delete" /\ r.err = NoErr
                  THEN deleted \cup {id} ELSE deleted
    /\ last' = [op |-> op, via |-> via, ctx |-> ctx, id |-> id,
                options |-> options, fault |-> fault, err |-> r.err,
                out |-> r.out, calls |-> r.calls, dbcalls |-> r.dbcalls,
                more |-> r.store # rows /\ via = "db" /\ fault = 0]
    /\ UNCHANGED <<pending, todos>>

\* an ID no live row holds: the ID of a tombstoned row is handed out again
FreshIDs_Reused ==
    LET unused == (UUIDs \ {Nil}) \ {r.ID : r \in {x \in rows : x.DeletedAt = 0}}
    IN  {u \in unused : \A v \in unused : u <= v}

\* gen_random_uuid(): a non-nil value no row of the table holds.  UUIDs are
\* opaque, so one representative of the unused values stands for all of them.
FreshIDs ==
    LET unused == (UUIDs \ {Nil}) \ {r.ID : r \in rows}
    IN  {u \in unused : \A v \in unused : u <= v}

\* The calls of the data-access layer, the store answering every statement.
\* A call that left the store as it was is the last call of its behaviour
\* (last.more is FALSE): the state it leaves differs from the state it found
\* in last alone, and from the state it found every call is made already.  So
\* is a call through the service: the store it leaves is the store that the
\* data-access call it forwards to leaves, and from there every call is made.
\* Every store that a sequence of calls leaves is reached, and in it every
\* call of both layers is made.
DbCreate ==
    /\ last.more
    /\ \E ctx \in Ctxs, options \in CreateOptionsSet, newID \in FreshIDs :
        Return("Create", "db", ctx, Nil, options, 0,
               dbCreate(rows, clock, ctx, options, newID, 0))

DbList ==
    /\ last.more
    /\ \E ctx \in Ctxs, options \in ListOptionsSet :
        \E r \in dbList(rows, clock, ctx, options, 0) :
            Return("List", "db", ctx, Nil, options, 0, r)

DbGet ==
    /\ last.more
    /\ \E ctx \in Ctxs, ID \in UUIDs :
        Return("Get", "db", ctx, ID, NilOptions, 0,
               dbGet(rows, clock, ctx, ID, 0))

DbUpdate ==
    /\ last.more
    /\ \E ctx \in Ctxs, id \in UUIDs, options \in UpdateOptionsSet :
        Return("Update", "db", ctx, id, options, 0,
               dbUpdate(rows, clock, ctx, id, options, 0))

DbDelete ==
    /\ last.more
    /\ \E ctx \in Ctxs, ID \in UUIDs :
        Return("Delete", "db", ctx, ID, NilOptions, 0,
               dbDelete(rows, clock, ctx, ID, 0))

Next ==
    \/ DbCreate
    \/ DbList
    \/ DbGet
    \/ DbUpdate
    \/ DbDelete

Spec == Init /\ [][Next]_vars

\* The calls of the organisation service, which forwards to the
\* data-access layer.
ServiceCreate ==
    /\ last.more
    /\ \E ctx \in Ctxs, options \in CreateOptionsSet, newID \in FreshIDs :
        Return("Create", "service", ctx, Nil, options, 0,
               serviceCreate(rows, clock, ctx, options, newID, 0))

ServiceList ==
    /\ last.more
    /\ \E ctx \in Ctxs, options \in ListOptionsSet :
        \E r \in serviceList(rows, clock, ctx, options, 0) :
            Return("List", "service", ctx, Nil, options, 0, r)

ServiceGet ==
    /\ last.more
    /\ \E ctx \in Ctxs, ID \in UUIDs :
        Return("Get", "service", ctx, ID, NilOptions, 0,
               serviceGet(rows, clock, ctx, ID, 0))

ServiceUpdate ==
    /\ last.more
    /\ \E ctx \in Ctxs, ID \in UUIDs, options \in UpdateOptionsSet :
        Return("Update", "service", ctx, ID, options, 0,
               serviceUpdate(rows, clock, ctx, ID, options, 0))

ServiceDelete ==
    /\ last.more
    /\ \E ctx \in Ctxs, ID \in UUIDs :
        Return("Delete", "service", ctx, ID, NilOptions, 0,
               serviceDelete(rows, clock, ctx, ID, 0))

NextLayers ==
    \/ DbCreate
    \/ DbList
    \/ DbGet
    \/ DbUpdate
    \/ DbDelete
    \/ ServiceCreate
    \/ ServiceList
    \/ ServiceGet
    \/ ServiceUpdate
    \/ ServiceDelete

SpecLayers == Init /\ [][NextLayers]_vars

\* The calls of the service in the stores that the writes of the
\* data-access layer leave.
NextService ==
    \/ DbCreate
    \/ DbUpdate
    \/ DbDelete
    \/ ServiceCreate
    \/ ServiceList
    \/ ServiceGet
    \/ ServiceUpdate
    \/ ServiceDelete

SpecService == Init /\ [][NextService]_vars

\* The table as the tests of List find it.  Create was called n times, for
\* n up to Seeded, with the Titles "Organisation 0", "Organisation 1", ... in
\* turn (titling "distinct") or with every Title given to two rows in turn
\* (titling "paired"); kind[i] tells whether row i was created for user 1
\* ("mine"), for user 2 ("other"), or for user 1 and then deleted ("gone"),
\* the deletions coming after the n creations, in the order of the IDs.
SeedKinds == {"mine", "other", "gone"}

SeededStore(n, kind, titling) ==
    LET Gone(i) == {j \in 1 .. i : kind[j] = "gone"}
    IN  {[ID |-> i,
          CreatedAt |-> i, UpdatedAt |-> i,
          DeletedAt |-> IF kind[i] = "gone"
                        THEN n + Cardinality(Gone(i)) ELSE 0,
          Title |-> IF titling = "distinct" THEN i ELSE (i + 1) \div 2,
          OwnerID |-> IF kind[i] = "other" THEN 2 ELSE 1] : i \in 1 .. n}

InitSeeded ==
    \E n \in 0 .. Seeded, titling \in {"distinct", "paired"} :
        \E kind \in [1 .. n -> SeedKinds] :
            /\ rows = SeededStore(n, kind, titling)
            /\ clock = n + Cardinality({i \in 1 .. n : kind[i] = "gone"})
            /\ deleted = {i \in 1 .. n : kind[i] = "gone"}
            /\ last = NoCall
            /\ pending = NoPending
            /\ todos = {}

\* the filters the tests of List pass, and their combinations
SeededListOptions ==
    [isNil : {FALSE}, Title : {0, 2}, Skip : {0, 1, 2, Seeded},
     Limit : {0, 1, 2, MaxLimit},
     OrderBy : {"title"}, OrderDirection : {"", "asc", "desc"}] \cup
    [isNil : {FALSE}, Title : {0, 2}, Skip : {0, 1, 2, Seeded},
     Limit : {0, 1, 2, MaxLimit},
     OrderBy : {""}, OrderDirection : {""}]

\* a List of the seeded table
SeededList ==
    /\ last.more
    /\ \E ctx \in Ctxs, options \in SeededListOptions :
          \E r \in dbList(rows, clock, ctx, options, 0) :
              last' = [op |-> "List", via |-> "db", ctx |-> ctx, id |-> Nil,
                       options |-> options, fault |-> 0, err |-> r.err,
                       out |-> r.out, calls |-> r.calls,
                       dbcalls |-> r.dbcalls, more |-> FALSE]
    /\ UNCHANGED <<rows, clock, deleted, pending, todos>>

NextSeeded == SeededList

SpecSeeded == InitSeeded /\ [][NextSeeded]_vars

\* The validators applied to option values, as the data-access layer and
\* the service apply them to the options of a call.
ValidateList ==
    /\ \E o \in ValidateListInputs :
          last' = [op |-> "ListOptions.validate", options |-> o,
                   err |-> ListOptions_validate(o),
                   serviceErr |-> service_ListOptions_validate(o)]
    /\ UNCHANGED <<rows, clock, deleted, pending, todos>>

ValidateCreate ==
    /\ \E o \in CreateOptionsSet \ {NilOptions} :
          last' = [op |-> "CreateOptions.validate", options |-> o,
                   err |-> CreateOptions_validate(o),
                   serviceErr |-> service_CreateOptions_validate(o)]
    /\ UNCHANGED <<rows, clock, deleted, pending, todos>>

NextValidate ==
    \/ ValidateList
    \/ ValidateCreate

SpecValidate == Init /\ [][NextValidate]_vars

\* The calls of the data-access layer with a store that fails: fault 1 is
\* the failure of the statement of the call (of the update statement, in
\* Update), fault 2 the failure of the re-fetch that follows the update
\* statement.  The stores are those that Create, Update and Delete leave
\* when the store answers; a call the store has failed is the last call of
\* its behaviour, the store it leaves being one that a call the store
\* answered leaves as well.
FailCreate ==
    /\ last.more
    /\ \E ctx \in Ctxs, options \in CreateOptionsSet, newID \in FreshIDs :
        Return("Create", "db", ctx, Nil, options, 1,
               dbCreate(rows, clock, ctx, options, newID, 1))

FailList ==
    /\ last.more
    /\ \E ctx \in Ctxs, options \in ListOptionsSet :
        \E r \in dbList(rows, clock, ctx, options, 1) :
            Return("List", "db", ctx, Nil, options, 1, r)

FailGet ==
    /\ last.more
    /\ \E ctx \in Ctxs, ID \in UUIDs :
        Return("Get", "db", ctx, ID, NilOptions, 1,
               dbGet(rows, clock, ctx, ID, 1))

FailUpdate ==
    /\ last.more
    /\ \E ctx \in Ctxs, id \in UUIDs, options \in UpdateOptionsSet,
          fault \in {1, 2} :
        Return("Update", "db", ctx, id, options, fault,
               dbUpdate(rows, clock, ctx, id, options, fault))

FailDelete ==
    /\ last.more
    /\ \E ctx \in Ctxs, ID \in UUIDs :
        Return("Delete", "db", ctx, ID, NilOptions, 1,
               dbDelete(rows, clock, ctx, ID, 1))

NextFaults ==
    \/ DbCreate
    \/ DbUpdate
    \/ DbDelete
    \/ FailCreate
    \/ FailList
    \/ FailGet
    \/ FailUpdate
    \/ FailDelete

SpecFaults == Init /\ [][NextFaults]_vars

\* The two store calls of an Update as two steps, between which the calls
\* of other requests take place: sqldb.Update opens no transaction around
\* its update statement and its re-fetch.  The update statement of a call
\* whose input is valid is executed; the call has not returned.
UpdateStatement ==
    /\ last.more
    /\ pending = NoPending
    /\ \E ctx \in Ctxs, id \in UUIDs \ {Nil},
          options \in {o \in UpdateOptionsSet :
                          ~o.isNil /\ UpdateOptions_validate(o) = NoErr} :
        LET store1 == Updates(rows, clock, ctx, id, options)
        IN  /\ store1 # rows => clock < MaxClock
            /\ rows' = store1
            /\ clock' = IF store1 = rows THEN clock ELSE clock + 1
            /\ pending' = <<[ctx |-> ctx, id |-> id, options |-> options,
                             RowsAffected |->
                                 IF store1 = rows THEN 0 ELSE 1]>>
    /\ UNCHANGED <<deleted, last, todos>>

\* the re-fetch of the Update, in the store as it is by then, and the return
\* of the call; RowsAffected is the number of rows its update statement
\* changed
UpdateRefetch ==
    /\ pending # NoPending
    /\ LET call == pending[1]
           got == dbGet(rows, clock, call.ctx, call.id, 0)
       IN  last' = [op |-> "Update", via |-> "db", ctx |-> call.ctx,
                    id |-> call.id, options |-> call.options,
                    fault |-> 0, err |-> got.err, out |-> got.out,
                    calls |-> 1 + got.calls, dbcalls |-> 0, more |-> FALSE,
                    RowsAffected |-> call.RowsAffected]
    /\ pending' = NoPending
    /\ UNCHANGED <<rows, clock, deleted, todos>>

NextConcurrent ==
    \/ DbCreate
    \/ DbUpdate
    \/ DbDelete
    \/ UpdateStatement
    \/ UpdateRefetch

SpecConcurrent == Init /\ [][NextConcurrent]_vars

\* ------------------------------------------------------------ todo service
\* The todo service works on the table of todos with no validation and no
\* ownership condition.  A todo has the fields of storage.Base and a Title.
\* The row First(&payload) loads when the primary key of payload is zero and
\* so makes no condition: the first live row in the order of the primary key.
TheFirst(S) == CHOOSE r \in S : \A q \in S : r.ID <= q.ID

\* the live todos the primary key ID reaches; every live todo when ID is the
\* nil UUID, a zero primary key making no condition
TodoMatching(store, ID) ==
    {r \in store : r.DeletedAt = 0 /\ (ID # Nil => r.ID = ID)}

\* service.Create of package todo: the title is stored as it is given
todoCreate(store, clk, title, newID, fault) ==
    IF fault = 1 THEN Res(StoreErr, <<>>, store, clk, 1)
    ELSE LET payload == [ID |-> newID,
                         CreatedAt |-> clk + 1, UpdatedAt |-> clk + 1,
                         DeletedAt |-> 0, Title |-> title]
         IN  Res(NoErr, <<payload>>, store \cup {payload}, clk + 1, 1)

\* service.Get of package todo
todoGet(store, clk, ID, fault) ==
    IF fault = 1 THEN Res(StoreErr, <<>>, store, clk, 1)
    ELSE IF TodoMatching(store, ID) = {}
    THEN Res("gorm.ErrRecordNotFound", <<>>, store, clk, 1)
    ELSE Res(NoErr, <<TheFirst(TodoMatching(store, ID))>>, store, clk, 1)

\* service.List of package todo: options is dereferenced as it is given
todoList(store, clk, options, fault) ==
    IF options.isNil
    THEN {Res("panic: nil pointer dereference", <<>>, store, clk, 0)}
    ELSE IF fault = 1 THEN {Res(StoreErr, <<>>, store, clk, 1)}
    ELSE {Res(NoErr, Window(s, options), store, clk, 1) :
            s \in {p \in Perms({r \in store :
                                  /\ r.DeletedAt = 0
                                  /\ (options.Title # 0 =>
                                         r.Title = options.Title)}) :
                      Ordered(p, options)}}

\* service.Update of package todo.  Updates(options) sets the non-zero
\* fields of options: with an empty Title it sets nothing and runs no
\* statement; with a Title and a zero primary key the statement has no
\* condition and is refused.  The re-fetch follows in every case but that of
\* an error.
todoUpdate(store, clk, id, options, fault) ==
    IF fault = 1 THEN Res(StoreErr, <<>>, store, clk, 1)
    ELSE IF options.Title # 0 /\ id = Nil
    THEN Res("gorm.ErrMissingWhereClause", <<>>, store, clk, 1)
    ELSE LET store1 == IF options.Title = 0 THEN store
                       ELSE {IF r \in TodoMatching(store, id)
                             THEN [r EXCEPT !.Title = options.Title,
                                            !.UpdatedAt = clk + 1]
                             ELSE r : r \in store}
             clk1 == IF store1 = store THEN clk ELSE clk + 1
             got == todoGet(store1, clk1, id, IF fault = 2 THEN 1 ELSE 0)
         IN  Res(got.err, got.out, store1, clk1, 1 + got.calls)

\* service.Delete of package todo: result.Error is returned and
\* result.RowsAffected is not looked at
todoDelete(store, clk, ID, fault) ==
    IF fault = 1 THEN Res(StoreErr, <<>>, store, clk, 1)
    ELSE IF ID = Nil
    THEN Res("gorm.ErrMissingWhereClause", <<>>, store, clk, 1)
    ELSE LET store1 == {IF r \in TodoMatching(store, ID)
                        THEN [r EXCEPT !.DeletedAt = clk + 1]
                        ELSE r : r \in store}
         IN  Res(NoErr, <<>>, store1,
                 IF store1 = store THEN clk ELSE clk + 1, 1)

\* the call of the todo service returns
TodoReturn(op, id, options, r) ==
    /\ r.clock <= MaxClock
    /\ Cardinality(r.store) <= MaxRows
    /\ todos' = r.store
    /\ clock' = r.clock
    /\ last' = [op |-> op, via |-> "todo", ctx |-> NoClaims, id |-> id,
                options |-> options, fault |-> 0, err |-> r.err,
                out |-> r.out, calls |-> r.calls, dbcalls |-> r.dbcalls,
                more |-> r.store # todos]
    /\ UNCHANGED <<rows, deleted, pending>>

\* gen_random_uuid() in the table of todos
TodoFreshIDs ==
    LET unused == (UUIDs \ {Nil}) \ {r.ID : r \in todos}
    IN  {u \in unused : \A v \in unused : u <= v}

TodoCreate ==
    /\ last.more
    /\ \E title \in Titles, newID \in TodoFreshIDs :
        TodoReturn("Create", Nil, [isNil |-> FALSE, Title |-> title],
                   todoCreate(todos, clock, title, newID, 0))

TodoGet ==
    /\ last.more
    /\ \E ID \in UUIDs :
        TodoReturn("Get", ID, NilOptions, todoGet(todos, clock, ID, 0))

TodoList ==
    /\ last.more
    /\ \E options \in ListOptionsSet :
        \E r \in todoList(todos, clock, options, 0) :
            TodoReturn("List", Nil, options, r)

TodoUpdate ==
    /\ last.more
    /\ \E id \in UUIDs, options \in UpdateOptionsSet \ {NilOptions} :
        TodoReturn("Update", id, options,
                   todoUpdate(todos, clock, id, options, 0))

TodoDelete ==
    /\ last.more
    /\ \E ID \in UUIDs :
        TodoReturn("Delete", ID, NilOptions, todoDelete(todos, clock, ID, 0))

NextTodo ==
    \/ TodoCreate
    \/ TodoGet
    \/ TodoList
    \/ TodoUpdate
    \/ TodoDelete

SpecTodo == Init /\ [][NextTodo]_vars

\* ------------------------------------------------------- Response, handleErr
\* An error value is the nil interface, an error of another type with its
\* text, or a *Response; a *Response is the nil pointer or points to a
\* Response.  Data is an interface value: nil, or a value that may be empty.
NilError == [type |-> "nil", text |-> ""]

PlainErrors == [type : {"error"}, text : {"", "e", "f"}]

NilResponse == [type |-> "*Response", isNil |-> TRUE]

Responses ==
    [type : {"*Response"}, isNil : {FALSE},
     Data : [isNil : {TRUE}, value : {""}] \cup
            [isNil : {FALSE}, value : {"", "d"}],
     Message : {"", "m"},
     Err : {NilError} \cup PlainErrors,
     Status : {0, 200, 400, 404, 500}]

Errors == {NilError, NilResponse} \cup PlainErrors \cup Responses

StatusInternalServerError == 500

\* the Err of a Response marshalled as an interface value, without the
\* conversion to its text
MarshalJSON_ErrAsValue(r) ==
    LET keys == (IF r.Data.isNil THEN {} ELSE {"data"}) \cup
                (IF r.Message = "" THEN {} ELSE {"message"}) \cup
                (IF r.Err.type = "nil" THEN {} ELSE {"error"})
    IN  [k \in keys |-> CASE k = "data" -> r.Data.value
                          [] k = "message" -> r.Message
                          [] k = "error" -> r.Err.text]

\* Response.MarshalJSON: the JSON object, a function of the keys it holds.
\* The Err is converted to its text, the empty text when Err is nil; each
\* field is tagged omitempty: the interface Data is left out when nil, each
\* string when empty.
MarshalJSON(r) ==
    LET errorMsg == IF r.Err.type # "nil" THEN r.Err.text ELSE ""
        keys == (IF r.Data.isNil THEN {} ELSE {"data"}) \cup
                (IF r.Message = "" THEN {} ELSE {"message"}) \cup
                (IF errorMsg = "" THEN {} ELSE {"error"})
    IN  [k \in keys |-> CASE k = "data" -> r.Data.value
                          [] k = "message" -> r.Message
                          [] k = "error" -> errorMsg]

\* write: w.WriteHeader(status), which panics on a status outside 100..999,
\* then the response encoded into the body
write(w, status, response) ==
    IF status < 100 \/ status > 999
    THEN [w |-> w, panic |-> TRUE]
    ELSE [w |-> Append(w, [status |-> status, body |-> MarshalJSON(response)]),
          panic |-> FALSE]

\* handleErr: a *Response is written with its own Status, the read of which
\* panics on the nil pointer; every other error is wrapped in a Response
\* with the default message and written with status 500
handleErr(w, err) ==
    IF err.type = "*Response"
    THEN IF err.isNil THEN [w |-> w, panic |-> TRUE]
         ELSE write(w, err.Status, err)
    ELSE write(w, StatusInternalServerError,
               [Data |-> [isNil |-> TRUE, value |-> ""],
                Message |-> "Your broke something on our server :(",
                Err |-> err])

\* handleErr called with the writer of a request nothing was written to
HandleErr ==
    /\ \E err \in Errors :
          LET r == handleErr(<<>>, err)
          IN  last' = [op |-> "handleErr", err |-> err, out |-> r.w,
                       panic |-> r.panic]
    /\ UNCHANGED <<rows, clock, deleted, pending, todos>>

NextHandleErr == HandleErr

SpecHandleErr == Init /\ [][NextHandleErr]_vars

\* ------------------------------------------------- NewSQLDB, NewService
\* A config is the nil pointer or points to a struct.  The DB of an
\* SQLDBConfig is a connection or nil; the DB of a service Config is the nil
\* interface or an sqldb, which holds a connection or nil; its Logger is a
\* logger or nil.
NilConfig == [isNil |-> TRUE]

SQLDBConfigs == {NilConfig} \cup [isNil : {FALSE}, DB : {"nil", "conn"}]

NilDB == [type |-> "nil", conn |-> "nil"]

DBs == {NilDB} \cup [type : {"sqldb"}, conn : {"nil", "conn"}]

ServiceConfigs ==
    {NilConfig} \cup [isNil : {FALSE}, DB : DBs, Logger : {"nil", "logger"}]

\* NewSQLDB: the panic, or the instance returned
NewSQLDB(config) ==
    IF config.isNil THEN [panic |-> "db: nil config", out |-> <<>>]
    ELSE [panic |-> "",
          out |-> <<[type |-> "sqldb", conn |-> config.DB]>>]

\* a NewService that keeps the Logger of the config as it is
NewService_NilLogger(config) ==
    IF config.isNil THEN [panic |-> "service: nil config", out |-> <<>>]
    ELSE [panic |-> "",
          out |-> <<[type |-> "service", db |-> config.DB,
                     logger |-> [base |-> config.Logger,
                                 layer |-> "service"]]>>]

\* NewService: the panic, or the instance returned
NewService(config) ==
    IF config.isNil THEN [panic |-> "service: nil config", out |-> <<>>]
    ELSE [panic |-> "",
          out |-> <<[type |-> "service", db |-> config.DB,
                     logger |-> [base |-> IF config.Logger = "nil"
                                          THEN "slog.Default()"
                                          ELSE config.Logger,
                                 layer |-> "service"]]>>]

\* the calls made on an instance
Calls ==
    [op : {"Create"}, ctx : Ctxs, id : {Nil}, options : CreateOptionsSet] \cup
    [op : {"List"}, ctx : Ctxs, id : {Nil}, options : ListOptionsSet] \cup
    [op : {"Get", "Delete"}, ctx : Ctxs, id : UUIDs,
     options : {NilOptions}] \cup
    [op : {"Update"}, ctx : Ctxs, id : UUIDs, options : UpdateOptionsSet]

\* the dereference of a nil pointer: the call does not return
Panicked(store, clk) ==
    Res("panic: nil pointer dereference", <<>>, store, clk, 0)

\* a method of the sqldb self: db.conn.WithContext(ctx) is its first
\* statement, before the validation
sqldbCall(self, c, store, clk) ==
    IF self.conn = "nil" THEN {Panicked(store, clk)}
    ELSE CASE c.op = "Create" ->
                {dbCreate(store, clk, c.ctx, c.options, newID, 0) :
                    newID \in FreshIDs}
           [] c.op = "List" -> dbList(store, clk, c.ctx, c.options, 0)
           [] c.op = "Get" -> {dbGet(store, clk, c.ctx, c.id, 0)}
           [] c.op = "Update" ->
                {dbUpdate(store, clk, c.ctx, c.id, c.options, 0)}
           [] c.op = "Delete" -> {dbDelete(store, clk, c.ctx, c.id, 0)}

\* a method of the service self: it logs through s.logger, validates, and
\* calls the method of s.db, which is a nil interface, an sqldb without a
\* connection, or an sqldb with one
serviceCall(self, c, store, clk) ==
    IF self.logger.base = "nil" THEN {Panicked(store, clk)}
    ELSE LET forwarded ==
                CASE c.op = "Create" ->
                        {serviceCreate(store, clk, c.ctx, c.options, newID, 0) :
                            newID \in FreshIDs}
                  [] c.op = "List" ->
                        serviceList(store, clk, c.ctx, c.options, 0)
                  [] c.op = "Get" ->
                        {serviceGet(store, clk, c.ctx, c.id, 0)}
                  [] c.op = "Update" ->
                        {serviceUpdate(store, clk, c.ctx, c.id, c.options, 0)}
                  [] c.op = "Delete" ->
                        {serviceDelete(store, clk, c.ctx, c.id, 0)}
         IN  {IF r.dbcalls = 1 /\ (self.db.type = "nil" \/ self.db.conn = "nil")
              THEN [Panicked(store, clk) EXCEPT !.dbcalls = 1]
              ELSE r : r \in forwarded}

\* The constructors are called when the program starts, and a call is made
\* on the instance a constructor returned.  An instance never changes after
\* its construction, so that one call on it shows whether it is usable.
NewSQLDBCall ==
    /\ last.op = "none"
    /\ \E config \in SQLDBConfigs :
          last' = [op |-> "NewSQLDB", config |-> config,
                   panic |-> NewSQLDB(config).panic,
                   out |-> NewSQLDB(config).out]
    /\ UNCHANGED <<rows, clock, deleted, pending, todos>>

NewServiceCall ==
    /\ last.op = "none"
    /\ \E config \in ServiceConfigs :
          last' = [op |-> "NewService", config |-> config,
                   panic |-> NewService(config).panic,
                   out |-> NewService(config).out]
    /\ UNCHANGED <<rows, clock, deleted, pending, todos>>

\* the call c on the instance self returns r, or panics
Called(via, self, c, r) ==
    /\ rows' = r.store
    /\ clock' = r.clock
    /\ deleted' = IF c.op = "Delete" /\ r.err = NoErr
                  THEN deleted \cup {c.id} ELSE deleted
    /\ last' = [op |-> c.op, via |-> via, self |-> self, ctx |-> c.ctx,
                id |-> c.id, options |-> c.options, fault |-> 0,
                err |-> r.err, out |-> r.out, calls |-> r.calls,
                dbcalls |-> r.dbcalls, more |-> FALSE]
    /\ UNCHANGED <<pending, todos>>

SQLDBCall ==
    /\ last.op = "NewSQLDB"
    /\ last.out # <<>>
    /\ \E c \in Calls :
          \E r \in sqldbCall(last.out[1], c, rows, clock) :
              Called("db", last.out[1], c, r)

ServiceCall ==
    /\ last.op = "NewService"
    /\ last.out # <<>>
    /\ \E c \in Calls :
          \E r \in serviceCall(last.out[1], c, rows, clock) :
              Called("service", last.out[1], c, r)

NextConstruct ==
    \/ NewSQLDBCall
    \/ NewServiceCall
    \/ SQLDBCall
    \/ ServiceCall

SpecConstruct == Init /\ [][NextConstruct]_vars

TypeOK ==
    /\ clock \in 0 .. MaxClock
    /\ Cardinality(rows) <= MaxRows
    /\ deleted \subseteq UUIDs

\* ================================================================== claims
\* the rows of a returned sequence
OutRows(l) == {l.out[i] : i \in 1 .. Len(l.out)}

\* the non-deleted rows with primary key id
Live(store, id) == {r \in store : r.ID = id /\ r.DeletedAt = 0}

\* a context that carries the identity of a user
Scoped(ctx) == ctx \in Users

\* a call whose options pass the validator of its operation
ValidList(l) ==
    l.options.isNil \/
    (l.options.Skip >= 0 /\ l.options.Limit >= 0 /\ l.options.Limit <= MaxLimit)

\* C1: ownership isolation of reads.  A List under the identity of user B
\* returns no entity owned by another user, and returns the empty list without
\* error when no row is owned by B; a Get under the identity of B of a row
\* owned by another user returns an error and no entity.
C1_ReadIsolation ==
    /\ (last.op = "List" /\ Scoped(last.ctx)) =>
          /\ \A r \in OutRows(last) : r.OwnerID = last.ctx
          /\ (\A r \in rows : r.OwnerID # last.ctx) =>
                /\ last.out = <<>>
                /\ ValidList(last) => last.err = NoErr
    /\ (/\ last.op = "Get"
        /\ Scoped(last.ctx)
        /\ \E r \in rows : r.ID = last.id /\ r.OwnerID # last.ctx) =>
          /\ last.err # NoErr
          /\ last.out = <<>>

\* a List under the identity of one user, with default options, of a store
\* that holds a live row of that user and a live row of another user: the
\* result is the one row of the caller
C1_Witness ==
    /\ last.op = "List"
    /\ Scoped(last.ctx)
    /\ last.options = EmptyListOptions
    /\ last.err = NoErr
    /\ \E r \in rows : r.DeletedAt = 0 /\ r.OwnerID \in Users \ {last.ctx}
    /\ Len(last.out) = 1
    /\ last.out[1].OwnerID = last.ctx

C3_UniformOwnershipFilter ==
    /\ [](/\ (last.op \in {"List", "Get", "Update"} /\ Scoped(last.ctx)) =>
                \A r \in OutRows(last) : r.OwnerID = last.ctx)
    /\ [][(last'.op \in {"List", "Get", "Update", "Delete"}
           /\ Scoped(last'.ctx)) =>
             /\ \A r \in rows : r.OwnerID # last'.ctx => r \in rows'
             /\ \A r \in rows' : r.OwnerID # last'.ctx => r \in rows]_vars

\* an Update under the identity of the owner succeeds in a store that also
\* holds a live row of another user
C3_Witness ==
    /\ last.op = "Update"
    /\ last.err = NoErr
    /\ Scoped(last.ctx)
    /\ last.out[1].OwnerID = last.ctx
    /\ last.out[1].Title = last.options.Title
    /\ \E r \in rows : r.DeletedAt = 0 /\ r.OwnerID \in Users \ {last.ctx}

\* what a call returns to its caller
Output(res) == <<res.err, res.out>>

\* the store without the row of primary key id
Without(store, id) == {r \in store : r.ID # id}

\* the live rows of the store that a user other than B owns
ForeignLive(store, B) ==
    {r \in store : r.DeletedAt = 0 /\ r.OwnerID # B}

\* what the call l returns when it is made in the store
Replay(l, store, clk) ==
    CASE l.op = "Get" -> Output(dbGet(store, clk, l.ctx, l.id, 0))
      [] l.op = "Update" ->
            Output(dbUpdate(store, clk, l.ctx, l.id, l.options, 0))
      [] l.op = "Delete" -> Output(dbDelete(store, clk, l.ctx, l.id, 0))

\* C4: existence is not leaked.  A Get, Update or Delete by a caller with the
\* identity B returns what it returns in the store without the live rows of
\* the other owners; when its ID belongs to a live row of another owner it
\* returns what it returns in the store that never held a row of that ID.
C4_ExistenceNotLeaked ==
    [][(last'.op \in {"Get", "Update", "Delete"} /\ Scoped(last'.ctx)) =>
          /\ <<last'.err, last'.out>> =
                Replay(last', rows \ ForeignLive(rows, last'.ctx), clock)
          /\ (\E a \in ForeignLive(rows, last'.ctx) : a.ID = last'.id) =>
                <<last'.err, last'.out>> =
                   Replay(last', Without(rows, last'.id), clock)]_vars

\* a Get under the identity of one user of the live row of another user
\* returns the error of a row that is not there
C4_Witness ==
    /\ last.op = "Get"
    /\ Scoped(last.ctx)
    /\ \E a \in ForeignLive(rows, last.ctx) : a.ID = last.id
    /\ last.err = "gorm.ErrRecordNotFound"
    /\ last.out = <<>>

\* the ID reaches no live row, or reaches a row that a user other than the
\* one of the context owns
NotReachable(store, ctx, id) ==
    \/ Live(store, id) = {}
    \/ Scoped(ctx) /\ \E r \in store : r.ID = id /\ r.OwnerID # ctx

\* C5: an Update on an ID that matches no live row, or on a row whose owner
\* differs from the identity of the context, returns an error and leaves
\* every row of the store as it was.
C5_UpdateUnreachable ==
    [][(last'.op = "Update" /\ NotReachable(rows, last'.ctx, last'.id)) =>
          /\ last'.err # NoErr
          /\ last'.out = <<>>
          /\ rows' = rows]_vars

\* an Update with a valid Title under the identity of one user, on the live
\* row of another user
C5_Witness ==
    /\ last.op = "Update"
    /\ Scoped(last.ctx)
    /\ ~last.options.isNil
    /\ last.options.Title # 0
    /\ \E a \in ForeignLive(rows, last.ctx) :
          a.ID = last.id /\ a.Title # last.options.Title
    /\ last.err = "gorm.ErrRecordNotFound"

\* C6: a Delete on a non-nil ID that matches no live row, or whose row is
\* owned by an identity other than the one of the context, returns
\* ErrNoRowsAffected and sets no tombstone; a live row of that ID stays live
\* and a Get under the identity of its owner still returns it.
C6_DeleteUnreachable ==
    [][(/\ last'.op = "Delete"
        /\ last'.id # Nil
        /\ NotReachable(rows, last'.ctx, last'.id)) =>
          /\ last'.err = "db.ErrNoRowsAffected"
          /\ rows' = rows
          /\ \A r \in Live(rows, last'.id) :
                /\ r \in rows'
                /\ Output(dbGet(rows', clock', r.OwnerID, r.ID, 0)) =
                      <<NoErr, <<r>>>>]_vars

\* a Delete under the identity of one user of the live row of another user
C6_Witness ==
    /\ last.op = "Delete"
    /\ Scoped(last.ctx)
    /\ \E a \in ForeignLive(rows, last.ctx) : a.ID = last.id
    /\ last.err = "db.ErrNoRowsAffected"

\* C7: once a Delete of an ID has succeeded, the entity is not readable
\* again.  In every later state, whatever calls came between, a Get of the ID
\* returns the not-found error under every context and no call, List under
\* any context and options included, returns the entity.
C7_DeletedStaysUnreadable ==
    /\ \A r \in OutRows(last) : r.ID \notin deleted
    /\ (last.op = "Get" /\ last.id \in deleted) =>
          /\ last.err = "gorm.ErrRecordNotFound"
          /\ last.out = <<>>
    /\ \A id \in deleted : Live(rows, id) = {}

\* a Get of a deleted entity under the identity of its owner, after another
\* row was written
C7_Witness ==
    /\ last.op = "Get"
    /\ last.id \in deleted
    /\ \E r \in rows : /\ r.ID = last.id
                       /\ r.OwnerID = last.ctx
                       /\ r.DeletedAt # 0
                       /\ clock > r.DeletedAt
    /\ last.err = "gorm.ErrRecordNotFound"

\* a caller the ownership condition lets reach the row
Allowed(ctx, r) == ctx = NoClaims \/ ctx = r.OwnerID

\* C8: a Delete of an existing live entity by a caller allowed to delete it
\* succeeds and sets the tombstone, and a Delete of the same ID that follows
\* it at once returns ErrNoRowsAffected and leaves the tombstone, and every
\* row, as it was.
C8_DeleteTwice ==
    /\ [][(/\ last'.op = "Delete"
           /\ \E r \in Live(rows, last'.id) : Allowed(last'.ctx, r)) =>
             /\ last'.err = NoErr
             /\ \A r \in Live(rows, last'.id) :
                   [r EXCEPT !.DeletedAt = clock'] \in rows'
             /\ clock' > 0]_vars
    /\ [][(/\ last.op = "Delete"
           /\ last.err = NoErr
           /\ last'.op = "Delete"
           /\ last'.id = last.id) =>
             /\ last'.err = "db.ErrNoRowsAffected"
             /\ rows' = rows]_vars

\* the second Delete of an entity, by its owner
C8_Witness ==
    /\ last.op = "Delete"
    /\ last.id \in deleted
    /\ \E r \in rows : /\ r.ID = last.id
                       /\ r.OwnerID = last.ctx
                       /\ r.DeletedAt = clock
    /\ last.err = "db.ErrNoRowsAffected"

\* the errors with which the operations reject their input
ValidationErrors ==
    {"db.ErrInvalidOptions", "db.ErrInvalidorganisationID",
     "db.ErrInvalidUserID", "db.ErrInvalidTitle", "db.ErrInvalidFilters",
     "service.ErrInvalidOptions", "service.ErrInvalidorganisationID",
     "service.ErrInvalidUserID", "service.ErrInvalidTitle",
     "service.ErrInvalidFilters"}

\* the input of the call is one the operation is documented to reject
InvalidInput(l) ==
    CASE l.op = "Create" ->
            l.options.isNil \/ l.options.Title = 0 \/ l.options.OwnerID = Nil
      [] l.op = "List" ->
            IF l.options.isNil THEN l.via = "service"
            ELSE l.options.Skip < 0 \/ l.options.Limit < 0
                    \/ l.options.Limit > MaxLimit
      [] l.op = "Get" -> l.id = Nil
      [] l.op = "Update" ->
            l.id = Nil \/ l.options.isNil \/ l.options.Title = 0
      [] l.op = "Delete" -> l.id = Nil
      [] OTHER -> FALSE

\* C9: fail fast with zero side effects.  A call with nil options, a nil ID,
\* an empty Title, a nil OwnerID, Skip < 0, Limit < 0 or Limit > 100 is
\* rejected with a validation error, and a call that is rejected has made no
\* store call, and in the service no data-access call, and has left the store
\* as it was.
C9_FailFast ==
    /\ [](InvalidInput(last) <=> last.err \in ValidationErrors)
    /\ [][last'.err \in ValidationErrors =>
             /\ last'.calls = 0
             /\ last'.dbcalls = 0
             /\ last'.out = <<>>
             /\ rows' = rows
             /\ clock' = clock]_vars

\* an Update through the service, with an empty Title, of a live row the
\* caller owns
C9_Witness ==
    /\ last.op = "Update"
    /\ last.via = "service"
    /\ ~last.options.isNil
    /\ last.options.Title = 0
    /\ \E r \in Live(rows, last.id) : r.OwnerID = last.ctx
    /\ last.err = "service.ErrInvalidTitle"
    /\ last.calls = 0

\* C10: a caller whose context carries no claims is unscoped.  List with
\* default options returns every live row and with any valid options only
\* live rows that pass the Title filter, whoever owns them; Get, Update and
\* Delete of a live row succeed whoever owns it.
C10_Unscoped ==
    /\ [](/\ (last.op = "List" /\ last.ctx = NoClaims /\ last.err = NoErr) =>
                /\ OutRows(last) \subseteq {r \in rows : r.DeletedAt = 0}
                /\ (last.options \in {NilOptions, EmptyListOptions}) =>
                      /\ OutRows(last) = {r \in rows : r.DeletedAt = 0}
                      /\ Len(last.out) = Cardinality(OutRows(last))
          /\ (/\ last.op = "Get"
              /\ last.ctx = NoClaims
              /\ Live(rows, last.id) # {}) =>
                /\ last.err = NoErr
                /\ OutRows(last) = Live(rows, last.id))
    /\ [][(/\ last'.op = "Update"
           /\ last'.ctx = NoClaims
           /\ Live(rows, last'.id) # {}
           /\ ~last'.options.isNil
           /\ last'.options.Title # 0) =>
             /\ last'.err = NoErr
             /\ \A r \in Live(rows, last'.id) :
                   /\ last'.out = <<[r EXCEPT !.Title = last'.options.Title,
                                              !.UpdatedAt = clock']>>
                   /\ last'.out[1] \in rows']_vars
    /\ [][(/\ last'.op = "Delete"
           /\ last'.ctx = NoClaims
           /\ Live(rows, last'.id) # {}) =>
             /\ last'.err = NoErr
             /\ Live(rows', last'.id) = {}]_vars

\* a row created for a user is deleted through a context without claims
C10_Witness ==
    /\ last.op = "Delete"
    /\ last.ctx = NoClaims
    /\ last.err = NoErr
    /\ \E r \in rows : /\ r.ID = last.id
                       /\ r.OwnerID \in Users
                       /\ r.DeletedAt = clock

\* the primary keys of the rows of a store
IDs(store) == {r.ID : r \in store}

\* C11: identity of rows.  The IDs of the rows of the store, tombstoned rows
\* included, are non-nil and pairwise distinct; a Create assigns an ID that
\* no row holds and that no Delete has freed, and inserts the row with the
\* OwnerID it was given; every call leaves the ID and the OwnerID of every
\* row as they were.
C11_IdentityOfRows ==
    /\ [](/\ \A r \in rows : r.ID # Nil /\ r.OwnerID # Nil
          /\ \A r1, r2 \in rows : r1.ID = r2.ID => r1 = r2)
    /\ [][/\ (last'.op = "Create" /\ last'.err = NoErr) =>
                /\ last'.out[1].ID \notin IDs(rows)
                /\ last'.out[1].ID \notin deleted
                /\ last'.out[1].OwnerID = last'.options.OwnerID
                /\ rows' = rows \cup {last'.out[1]}
          /\ \A r \in rows : \E r2 \in rows' :
                /\ r2.ID = r.ID
                /\ r2.OwnerID = r.OwnerID
                /\ r2.CreatedAt = r.CreatedAt]_vars

\* a Create that succeeds in a store that holds a tombstoned row
C11_Witness ==
    /\ last.op = "Create"
    /\ last.err = NoErr
    /\ deleted # {}
    /\ \E r \in rows : r.DeletedAt # 0 /\ r.ID # last.out[1].ID
    /\ last.out[1] \in rows

\* C12: entities are never hard-deleted.  Every call leaves every ID of the
\* store in the store and every tombstoned row as it was, field by field; a
\* Delete that succeeds sets the DeletedAt of the one live row of its ID and
\* changes nothing else.
C12_NeverHardDeleted ==
    [][/\ IDs(rows) \subseteq IDs(rows')
       /\ \A r \in rows : r.DeletedAt # 0 => r \in rows'
       /\ (last'.op = "Delete" /\ last'.err = NoErr) =>
             /\ clock' > clock
             /\ \E r \in Live(rows, last'.id) :
                   rows' = (rows \ {r}) \cup
                              {[r EXCEPT !.DeletedAt = clock']}]_vars

\* an Update with a valid Title, without claims, of a tombstoned row
C12_Witness ==
    /\ last.op = "Update"
    /\ last.ctx = NoClaims
    /\ last.id \in deleted
    /\ ~last.options.isNil
    /\ last.options.Title # 0
    /\ \E r \in rows : /\ r.ID = last.id
                       /\ r.DeletedAt # 0
                       /\ r.Title # last.options.Title
    /\ last.err = "gorm.ErrRecordNotFound"

\* C13: no row has an empty Title.  A Create with an empty Title, and an
\* Update of a non-nil ID with an empty Title, return ErrInvalidTitle and
\* leave the store as it was.
C13_TitleNonEmpty ==
    /\ [](\A r \in rows : r.Title # 0)
    /\ [][(/\ ~last'.options.isNil
           /\ \/ last'.op = "Create"
              \/ last'.op = "Update" /\ last'.id # Nil
           /\ last'.options.Title = 0) =>
             /\ last'.err = "db.ErrInvalidTitle"
             /\ last'.out = <<>>
             /\ rows' = rows
             /\ clock' = clock]_vars

\* an Update with an empty Title, by its owner, of a live row
C13_Witness ==
    /\ last.op = "Update"
    /\ last.via = "db"
    /\ ~last.options.isNil
    /\ last.options.Title = 0
    /\ \E r \in Live(rows, last.id) : r.OwnerID = last.ctx /\ r.Title # 0
    /\ last.err = "db.ErrInvalidTitle"

\* C14: the result of Create.  A Create with a non-empty Title and a non-nil
\* OwnerID succeeds, inserts one row and returns it: its ID is non-nil and
\* new, its Title and OwnerID are those of the options; a Get of that ID
\* that follows, by a caller the ownership condition admits, returns the
\* same entity.
C14_CreateResult ==
    /\ [][(/\ last'.op = "Create"
           /\ ~last'.options.isNil
           /\ last'.options.Title # 0
           /\ last'.options.OwnerID # Nil) =>
             /\ last'.err = NoErr
             /\ Len(last'.out) = 1
             /\ last'.out[1].ID # Nil
             /\ last'.out[1].ID \notin IDs(rows)
             /\ last'.out[1].Title = last'.options.Title
             /\ last'.out[1].OwnerID = last'.options.OwnerID
             /\ last'.out[1].DeletedAt = 0
             /\ rows' = rows \cup {last'.out[1]}
             /\ Cardinality(rows') = Cardinality(rows) + 1]_vars
    /\ [][(/\ last.op = "Create"
           /\ last.err = NoErr
           /\ last'.op = "Get"
           /\ last'.id = last.out[1].ID
           /\ Allowed(last'.ctx, last.out[1])) =>
             /\ last'.err = NoErr
             /\ last'.out = last.out]_vars

\* a Get, under the identity of the owner, of the entity that the call
\* before it created in a store that held a row already
C14_Witness ==
    /\ last.op = "Get"
    /\ last.err = NoErr
    /\ Scoped(last.ctx)
    /\ last.out[1].CreatedAt = clock
    /\ last.out[1].OwnerID = last.ctx
    /\ Cardinality(rows) > 1

\* C15: the result of Update.  An Update with a non-empty Title of a live
\* row, by a caller the ownership condition admits, succeeds and returns the
\* stored entity of that ID with the requested Title; a Get of the ID that
\* follows, by such a caller, returns the entity with that Title.
C15_UpdateResult ==
    /\ [][(/\ last'.op = "Update"
           /\ ~last'.options.isNil
           /\ last'.options.Title # 0
           /\ \E r \in Live(rows, last'.id) : Allowed(last'.ctx, r)) =>
             /\ last'.err = NoErr
             /\ Len(last'.out) = 1
             /\ last'.out[1].ID = last'.id
             /\ last'.out[1].Title = last'.options.Title
             /\ last'.out[1] \in rows']_vars
    /\ [][(/\ last.op = "Update"
           /\ last.err = NoErr
           /\ last'.op = "Get"
           /\ last'.id = last.id
           /\ Allowed(last'.ctx, last.out[1])) =>
             /\ last'.err = NoErr
             /\ last'.out[1].Title = last.options.Title]_vars

\* a Get, under the identity of the owner, of the entity that the call
\* before it gave another Title
C15_Witness ==
    /\ last.op = "Get"
    /\ last.err = NoErr
    /\ Scoped(last.ctx)
    /\ last.out[1].OwnerID = last.ctx
    /\ last.out[1].UpdatedAt = clock
    /\ last.out[1].CreatedAt < clock

\* C16: the frame of the operations.  An Update changes the Title and the
\* UpdatedAt of one row at most, the row of its ID, and leaves the other
\* fields of that row and every other row as they were; List, Get and every
\* call that returns an error leave the store as it was.
C16_UpdateFrame ==
    [][/\ last'.op = "Update" =>
             \E S \in SUBSET {r \in rows : r.ID = last'.id} :
                 /\ Cardinality(S) <= 1
                 /\ rows' = (rows \ S) \cup
                       {[r EXCEPT !.Title = last'.options.Title,
                                  !.UpdatedAt = clock'] : r \in S}
       /\ (last'.op \in {"List", "Get"} \/ last'.err # NoErr) =>
             /\ rows' = rows
             /\ clock' = clock
             /\ deleted' = deleted]_vars

\* an Update without claims that succeeds in a store that holds another row
C16_Witness ==
    /\ last.op = "Update"
    /\ last.ctx = NoClaims
    /\ last.err = NoErr
    /\ last.out[1].UpdatedAt = clock
    /\ last.out[1].CreatedAt < clock
    /\ \E r \in rows : /\ r.ID # last.id
                       /\ r.DeletedAt = 0
                       /\ r.Title # last.options.Title

\* C17: ListOptions.validate.  The validator of the data-access layer and the
\* validator of the service return their ErrInvalidFilters exactly when
\* Skip < 0 or Limit < 0 or Limit > 100, and no error otherwise, whatever
\* the Title, the OrderBy and the OrderDirection.
C17_ListOptionsValidate ==
    last.op = "ListOptions.validate" =>
        LET o == last.options
            invalid == o.Skip < 0 \/ o.Limit < 0 \/ o.Limit > 100
        IN  /\ last.err = IF invalid THEN "db.ErrInvalidFilters" ELSE NoErr
            /\ last.serviceErr =
                  IF invalid THEN "service.ErrInvalidFilters" ELSE NoErr
            /\ (last.err = NoErr) <=> (last.serviceErr = NoErr)

\* Skip = 0 and Limit = 100 accepted by both validators, with an OrderBy that
\* names no column of the list and a Title
C17_Witness ==
    /\ last.op = "ListOptions.validate"
    /\ last.options.Skip = 0
    /\ last.options.Limit = 100
    /\ last.options.Title # 0
    /\ last.options.OrderBy = "created_at"
    /\ last.options.OrderDirection = "asc"
    /\ last.err = NoErr
    /\ last.serviceErr = NoErr

\* C18: CreateOptions.validate.  An empty Title gives ErrInvalidTitle, also
\* when the OwnerID is nil; a non-empty Title with the nil OwnerID gives
\* ErrInvalidUserID; every other value is accepted.
C18_CreateOptionsValidate ==
    last.op = "CreateOptions.validate" =>
        /\ last.options.Title = 0 => last.err = "db.ErrInvalidTitle"
        /\ (last.options.Title # 0 /\ last.options.OwnerID = Nil) =>
              last.err = "db.ErrInvalidUserID"
        /\ (last.options.Title # 0 /\ last.options.OwnerID # Nil) =>
              last.err = NoErr

\* the empty Title with the nil OwnerID
C18_Witness ==
    /\ last.op = "CreateOptions.validate"
    /\ last.options.Title = 0
    /\ last.options.OwnerID = Nil
    /\ last.err = "db.ErrInvalidTitle"

\* the non-deleted rows that pass the ownership filter of the context and
\* the Title filter of the options
Filtered(store, ctx, o) ==
    {r \in store : /\ r.DeletedAt = 0
                   /\ Scoped(ctx) => r.OwnerID = ctx
                   /\ o.Title # 0 => r.Title = o.Title}

\* C19: pagination count.  With n the number of non-deleted rows that pass
\* the ownership and Title filters, a List with valid options succeeds and
\* returns max(0, n - Skip) entities when Limit = 0 and
\* min(Limit, max(0, n - Skip)) entities when 1 <= Limit <= 100; the entities
\* are distinct rows that pass the filters.
C19_PaginationCount ==
    (last.op = "List" /\ ValidList(last)) =>
        LET o == last.options
            n == Cardinality(Filtered(rows, last.ctx, o))
            rest == IF n > o.Skip THEN n - o.Skip ELSE 0
        IN  /\ last.err = NoErr
            /\ Len(last.out) = IF o.Limit = 0 \/ rest < o.Limit
                               THEN rest ELSE o.Limit
            /\ OutRows(last) \subseteq Filtered(rows, last.ctx, o)
            /\ Cardinality(OutRows(last)) = Len(last.out)

\* Skip = 2 over the five seeded rows gives three entities
C19_Witness ==
    /\ last.op = "List"
    /\ last.ctx = NoClaims
    /\ last.options.Title = 0
    /\ last.options.Skip = 2
    /\ last.options.Limit = 0
    /\ Cardinality({r \in rows : r.DeletedAt = 0}) = 5
    /\ Cardinality(rows) = 5
    /\ last.err = NoErr
    /\ Len(last.out) = 3

\* the rows of F that an order by Title puts before r, and those it does not
\* put after r
Before(F, r, o) ==
    {x \in F : IF o.OrderDirection = "desc"
               THEN x.Title > r.Title ELSE x.Title < r.Title}

UpTo(F, r, o) ==
    {x \in F : IF o.OrderDirection = "desc"
               THEN x.Title >= r.Title ELSE x.Title <= r.Title}

\* C20: ordering.  A List with OrderBy "title" returns entities sorted by
\* Title, descending for the OrderDirection "desc" and ascending for the
\* empty OrderDirection and for "asc", and the entities are those at the
\* positions Skip + 1, Skip + 2, ... of the sorted sequence of the rows that
\* pass the filters; over five rows of the Titles 1 .. 5 ("Record 0" ..
\* "Record 4") the first entity has the Title 5 for "desc" and the entity at
\* index 3 has the Title 4 for the default direction.
C20_Ordering ==
    (last.op = "List" /\ last.err = NoErr /\ last.options.OrderBy = "title") =>
        LET o == last.options
            F == Filtered(rows, last.ctx, o)
        IN  /\ \A i, j \in 1 .. Len(last.out) :
                  i < j => IF o.OrderDirection = "desc"
                           THEN last.out[i].Title >= last.out[j].Title
                           ELSE last.out[i].Title <= last.out[j].Title
            /\ \A i \in 1 .. Len(last.out) :
                  /\ last.out[i] \in F
                  /\ Cardinality(Before(F, last.out[i], o)) < o.Skip + i
                  /\ o.Skip + i <= Cardinality(UpTo(F, last.out[i], o))
            /\ \A i, j \in 1 .. Len(last.out) :
                  i # j => last.out[i] # last.out[j]
            /\ (/\ last.ctx = NoClaims
                /\ o.Title = 0 /\ o.Skip = 0 /\ o.Limit = 0
                /\ {r.Title : r \in F} = 1 .. 5
                /\ Cardinality(F) = 5) =>
                  IF o.OrderDirection = "desc"
                  THEN last.out[1].Title = 5
                  ELSE last.out[4].Title = 4

\* over the five seeded rows of distinct Titles, the first entity of the
\* descending order has the last Title
C20_Witness ==
    /\ last.op = "List"
    /\ last.ctx = NoClaims
    /\ last.options.OrderBy = "title"
    /\ last.options.OrderDirection = "desc"
    /\ last.options.Title = 0
    /\ last.options.Skip = 0
    /\ last.options.Limit = 0
    /\ {r.Title : r \in {x \in rows : x.DeletedAt = 0}} = 1 .. 5
    /\ Len(last.out) = 5
    /\ last.out[1].Title = 5

\* C21: nil options of List.  At the data-access layer a List with nil
\* options returns without error, and returns a result that List with the
\* empty ListOptions value returns in the same store under the same context;
\* and a List with the empty value returns a result that List with nil
\* options returns.
C21_NilAsEmpty ==
    (/\ last.op = "List"
     /\ last.via = "db"
     /\ last.options \in {NilOptions, EmptyListOptions}) =>
        /\ last.err = NoErr
        /\ \E r \in dbList(rows, clock, last.ctx,
                           IF last.options.isNil
                           THEN EmptyListOptions ELSE NilOptions, 0) :
              Output(r) = <<last.err, last.out>>
        /\ OutRows(last) = Filtered(rows, last.ctx, EmptyListOptions)

\* a List with nil options, under the identity of a user, of a store that
\* holds a row of that user and a row of another user
C21_Witness ==
    /\ last.op = "List"
    /\ last.via = "db"
    /\ last.options.isNil
    /\ Scoped(last.ctx)
    /\ last.err = NoErr
    /\ Len(last.out) = 1
    /\ Cardinality({r \in rows : r.DeletedAt = 0}) = 2

\* C22: the sentinel errors of the organisation service.  Create and List
\* with nil options and Get with the nil UUID return ErrInvalidOptions;
\* Update with the nil UUID, whatever its options, and Delete with the nil
\* UUID return ErrInvalidorganisationID; Update with a non-nil ID and nil
\* options returns ErrInvalidOptions; none of them calls the db layer or
\* changes the store.
C22_ServiceSentinels ==
    [][(/\ last'.via = "service"
        /\ \/ last'.op \in {"Create", "List", "Update"} /\ last'.options.isNil
           \/ last'.op \in {"Get", "Update", "Delete"} /\ last'.id = Nil) =>
          /\ last'.err =
                IF last'.op \in {"Update", "Delete"} /\ last'.id = Nil
                THEN "service.ErrInvalidorganisationID"
                ELSE "service.ErrInvalidOptions"
          /\ last'.out = <<>>
          /\ last'.dbcalls = 0
          /\ last'.calls = 0
          /\ rows' = rows
          /\ clock' = clock]_vars

\* an Update through the service with the nil UUID and nil options, in a
\* store that holds a live row
C22_Witness ==
    /\ last.op = "Update"
    /\ last.via = "service"
    /\ last.id = Nil
    /\ last.options.isNil
    /\ last.err = "service.ErrInvalidorganisationID"
    /\ last.dbcalls = 0
    /\ \E r \in rows : r.DeletedAt = 0

\* what the operation of the data-access layer returns for the input of the
\* call l in the store
DbResults(l, store, clk) ==
    CASE l.op = "Create" ->
            {dbCreate(store, clk, l.ctx, l.options, newID, 0) :
                newID \in FreshIDs}
      [] l.op = "List" -> dbList(store, clk, l.ctx, l.options, 0)
      [] l.op = "Get" -> {dbGet(store, clk, l.ctx, l.id, 0)}
      [] l.op = "Update" -> {dbUpdate(store, clk, l.ctx, l.id, l.options, 0)}
      [] l.op = "Delete" -> {dbDelete(store, clk, l.ctx, l.id, 0)}

\* C23: service transparency.  For an input that passes the validation of
\* the service, the operation of the service makes one call of the db layer
\* and returns the value and the error, and leaves the store, that the
\* corresponding db operation returns and leaves for the same context, the
\* same ID and the same options.  List and Get leave the store as it was, so
\* that what they return is compared with what the db operation returns in
\* the store they have left.
C23_ServiceTransparency ==
    /\ []((/\ last.via = "service"
           /\ last.op \in {"List", "Get"}
           /\ ~InvalidInput(last)) =>
            /\ last.dbcalls = 1
            /\ \E d \in DbResults(last, rows, clock) :
                  /\ last.err = d.err
                  /\ last.out = d.out
                  /\ last.calls = d.calls)
    /\ [][(/\ last'.via = "service"
           /\ last'.op \in {"List", "Get"}) =>
             /\ rows' = rows
             /\ clock' = clock]_vars
    /\ [][(/\ last'.via = "service"
           /\ last'.op \in {"Create", "Update", "Delete"}
           /\ ~InvalidInput(last')) =>
             /\ last'.dbcalls = 1
             /\ \E d \in DbResults(last', rows, clock) :
                   /\ last'.err = d.err
                   /\ last'.out = d.out
                   /\ last'.calls = d.calls
                   /\ rows' = d.store
                   /\ clock' = d.clock]_vars

\* a List through the service, in descending order of Title, of two rows
\* of different Titles
C23_Witness ==
    /\ last.op = "List"
    /\ last.via = "service"
    /\ ~last.options.isNil
    /\ last.options.OrderBy = "title"
    /\ last.options.OrderDirection = "desc"
    /\ last.err = NoErr
    /\ last.dbcalls = 1
    /\ Len(last.out) = 2
    /\ last.out[1].Title > last.out[2].Title

\* C26 as stated: under claims whose user id is the nil UUID, List returns
\* no row and Get, Update and Delete match no row.
C26_NilClaimsMatchNothing ==
    last.ctx = Nil =>
        /\ last.op = "List" => last.out = <<>>
        /\ last.op \in {"Get", "Update", "Delete"} => last.err # NoErr

\* C24: no retry and no wrapping.  When the store fails the statement of a
\* Create, List, Get or Delete, or the update statement of an Update, whose
\* input is valid, the call returns the error of the store and no value
\* after one store call, the re-fetch of Update not made, and leaves the
\* store as it was; when the store fails the re-fetch of an Update the call
\* returns the error of the store after two store calls, the update
\* statement and the re-fetch.
C24_NoRetryNoWrapping ==
    [][(last'.fault # 0 /\ ~InvalidInput(last')) =>
          /\ last'.err = StoreErr
          /\ last'.out = <<>>
          /\ last'.fault = 1 =>
                /\ last'.calls = 1
                /\ rows' = rows
                /\ clock' = clock
          /\ last'.fault = 2 => last'.calls = 2]_vars

\* the store fails the update statement of an Update, by its owner, of a
\* live row
C24_Witness ==
    /\ last.op = "Update"
    /\ last.fault = 1
    /\ last.err = StoreErr
    /\ last.calls = 1
    /\ \E r \in Live(rows, last.id) :
          /\ r.OwnerID = last.ctx
          /\ r.Title # last.options.Title

\* C27 as stated: an Update whose two store calls are interleaved with the
\* Update and Delete calls of other requests returns an error only if its
\* update statement has changed no row, and returns the Title that it wrote
\* when it succeeds.
C27_UpdateAtomic ==
    (last.op = "Update" /\ "RowsAffected" \in DOMAIN last) =>
        /\ last.err # NoErr => last.RowsAffected = 0
        /\ last.err = NoErr =>
              \A i \in 1 .. Len(last.out) :
                  last.out[i].Title = last.options.Title

\* C28 as stated: a Delete of the todo service on an ID that no live todo
\* holds, one never created or one deleted already, returns an error.
C28_TodoDeleteContract ==
    [][(/\ last'.op = "Delete"
        /\ last'.via = "todo"
        /\ ~\E r \in todos : r.ID = last'.id /\ r.DeletedAt = 0) =>
          last'.err # NoErr]_vars

\* C29 as stated: the todo service validates before it touches the store.
\* Create with an empty title fails and inserts no row, so that no stored
\* todo has an empty Title; Get, Update and Delete with the nil UUID fail
\* without a store call and leave the store as it was.
C29_TodoValidation ==
    /\ [](\A r \in todos : r.Title # 0)
    /\ [][(last'.via = "todo" /\ last'.op = "Create"
              /\ last'.options.Title = 0) =>
             /\ last'.err = "todo.ErrInvalidTitle"
             /\ last'.calls = 0
             /\ todos' = todos]_vars
    /\ [][(last'.via = "todo" /\ last'.op \in {"Get", "Update", "Delete"}
              /\ last'.id = Nil) =>
             /\ last'.err = "todo.ErrInvalidID"
             /\ last'.calls = 0
             /\ todos' = todos]_vars

\* the keys of a JSON object
Keys(body) == DOMAIN body

\* the envelope holds the key exactly when the text is not empty, with the
\* text as its value
KeyIffText(body, key, text) ==
    /\ key \in Keys(body) <=> text # ""
    /\ key \in Keys(body) => body[key] = text

\* C30 as stated: every call of handleErr writes one response; a *Response
\* is written with the status of its Status field, every other error with
\* status 500 and its text as the error text; the keys data, message and
\* error are there exactly when the field is not empty.
C30_OneResponsePerCall ==
    last.op = "handleErr" =>
        /\ Len(last.out) = 1
        /\ ~last.panic
        /\ last.err.type = "*Response" =>
              /\ last.out[1].status = last.err.Status
              /\ "data" \in Keys(last.out[1].body) <=> ~last.err.Data.isNil
              /\ KeyIffText(last.out[1].body, "message", last.err.Message)
              /\ KeyIffText(last.out[1].body, "error", last.err.Err.text)
        /\ last.err.type # "*Response" =>
              /\ last.out[1].status = 500
              /\ KeyIffText(last.out[1].body, "error", last.err.text)

\* C30: handleErr.  A call with a *Response that is not the nil pointer and
\* whose Status is in 100..999 writes one response, with that status and
\* with the envelope of the Response: the key data exactly when Data is not
\* nil, with its value, be it an empty one; the key message exactly when
\* Message is not empty; the key error exactly when Err is not nil and its
\* text is not empty, with that text.  A call with any other error, the nil
\* error too, writes one response with status 500, the default message, no
\* data, and the key error exactly when the text of the error is not empty.
\* A call with the nil *Response, or with a *Response whose Status is outside
\* 100..999, panics and writes nothing.
C30_HandleErr ==
    last.op = "handleErr" =>
        LET err == last.err
            written == err.type = "*Response" =>
                          (~err.isNil /\ err.Status \in 100 .. 999)
        IN  /\ last.panic <=> ~written
            /\ ~written => last.out = <<>>
            /\ written =>
                 /\ Len(last.out) = 1
                 /\ IF err.type = "*Response"
                    THEN /\ last.out[1].status = err.Status
                         /\ "data" \in Keys(last.out[1].body)
                               <=> ~err.Data.isNil
                         /\ "data" \in Keys(last.out[1].body) =>
                               last.out[1].body["data"] = err.Data.value
                         /\ KeyIffText(last.out[1].body, "message",
                                       err.Message)
                         /\ KeyIffText(last.out[1].body, "error",
                                       err.Err.text)
                    ELSE /\ last.out[1].status = 500
                         /\ "data" \notin Keys(last.out[1].body)
                         /\ last.out[1].body["message"] =
                               "Your broke something on our server :("
                         /\ KeyIffText(last.out[1].body, "error", err.text)

\* a *Response with status 404, an empty Data that is not nil, no Message and
\* an Err of empty text is written as the envelope that holds data alone
C30_Witness ==
    /\ last.op = "handleErr"
    /\ last.err.type = "*Response"
    /\ ~last.err.isNil
    /\ last.err.Status = 404
    /\ last.err.Err.type = "error"
    /\ last.err.Err.text = ""
    /\ ~last.panic
    /\ Len(last.out) = 1
    /\ Keys(last.out[1].body) = {"data"}
    /\ last.out[1].body["data"] = ""

\* the call l on an instance has panicked
Panic(l) == l.err = "panic: nil pointer dereference"

\* the constructor panics on the nil config, with its message, and on no
\* other config
PanicsOnNil(l, message) ==
    /\ l.config.isNil <=> l.panic = message
    /\ ~l.config.isNil <=> (l.panic = "" /\ Len(l.out) = 1)

\* C25 as stated: the constructors panic on a nil config, and for every
\* other config return an instance that is usable: no call on it panics.
C25_UsableForEveryConfig ==
    /\ last.op = "NewSQLDB" => PanicsOnNil(last, "db: nil config")
    /\ last.op = "NewService" => PanicsOnNil(last, "service: nil config")
    /\ (last.op \in {"Create", "List", "Get", "Update", "Delete"}
           /\ last.via \in {"db", "service"}) => ~Panic(last)

\* C25: the constructors.  NewSQLDB and NewService panic on a nil config and
\* on no other, and return for every other config an instance that holds the
\* DB of the config as it is, nil or not; the instance of NewService holds
\* the Logger of the config, or the default logger when that is nil, so
\* that no call panics on the logger.  A call on an sqldb panics exactly
\* when its connection is nil; a call on a service panics exactly when its
\* input passes the validation of the service and its DB is nil or an
\* sqldb whose connection is nil.
C25_Constructors ==
    /\ last.op = "NewSQLDB" =>
          /\ PanicsOnNil(last, "db: nil config")
          /\ ~last.config.isNil =>
                last.out = <<[type |-> "sqldb", conn |-> last.config.DB]>>
    /\ last.op = "NewService" =>
          /\ PanicsOnNil(last, "service: nil config")
          /\ ~last.config.isNil =>
                /\ last.out[1].db = last.config.DB
                /\ last.out[1].logger.base # "nil"
                /\ last.out[1].logger.base =
                      IF last.config.Logger = "nil"
                      THEN "slog.Default()" ELSE last.config.Logger
    /\ (last.op \in {"Create", "List", "Get", "Update", "Delete"}
           /\ last.via = "db") =>
          /\ Panic(last) <=> last.self.conn = "nil"
          /\ Panic(last) => rows = {}
    /\ (last.op \in {"Create", "List", "Get", "Update", "Delete"}
           /\ last.via = "service") =>
          /\ Panic(last) <=>
                /\ ~InvalidInput(last)
                /\ last.self.db.type = "nil" \/ last.self.db.conn = "nil"
          /\ Panic(last) => rows = {}

\* a Create that succeeds on the service built from a config with a
\* connected DB and a nil Logger
C25_Witness ==
    /\ last.op = "Create"
    /\ last.via = "service"
    /\ last.self.logger.base = "slog.Default()"
    /\ last.self.db.conn = "conn"
    /\ last.err = NoErr
    /\ Len(last.out) = 1
    /\ last.out[1] \in rows

====
